---- MODULE Spec2Model ----
(***************************************************************************)
(* The frame exchange of catcher_rover: the client loop of                 *)
(* main_client.run_catcher_rover and the server loop of main.start_server, *)
(* talking through the functions of socks.py over TCP connections.         *)
(*                                                                         *)
(* A connection is two byte streams.  A byte is a one-character string, a  *)
(* message a sequence of bytes.  Each stream keeps the boundaries of the   *)
(* send() calls that filled it (a sequence of segments), so that a read    *)
(* can be told to have split or coalesced what the peer sent; the bytes a  *)
(* recv(k) returns never depend on the boundaries: it returns any          *)
(* non-empty prefix of at most k bytes of what is pending, the empty       *)
(* message once the peer has closed, and blocks otherwise.                 *)
(***************************************************************************)
EXTENDS Integers, Sequences, FiniteSets, TLC

\* ------------------------------------------------------------------ bounds
\* Longest frame cam.capture() writes in the model.
MaxFrameLen == 17

\* The 1024 of recv(1024) and readline(1024), scaled down so that frames
\* longer than one read are within MaxFrameLen.  It stays at least as long
\* as everything the protocol ever has pending besides the frame (two
\* "OK FRAME" tokens), so every coalesced read 1024 allows is allowed.
BufSize == 16

\* The 15 of `for count in range(15)`, scaled down.
Iterations == 2

\* Environment faults (a killed client, a message of a deviating peer, a
\* detector that raises) in
\* one run of the specifications that have them.
MaxFaults == 1

\* Box coordinates and image sizes of the calls of compute_translation_vector
\* on its own are within MaxCoord of 0.
MaxCoord == 3

\* Yaw and speed of the calls of channel_override on its own are within
\* MaxYaw of 0.
MaxYaw == 700

\* The components of the vectors of the result messages sent on their own
\* are within MaxVect of 0.
MaxVect == 110

\* The retry_count of the calls of Ssh.remote_connect is at most MaxRetry
\* (run_cloud_command passes 10).
MaxRetry == 3

\* ------------------------------------------------------------ bytes, text
Min(a, b) == IF a < b THEN a ELSE b

Digits == <<"0", "1", "2", "3", "4", "5", "6", "7", "8", "9">>

NL == "\n"

IsDigit(c) == \E i \in 1..10 : Digits[i] = c

DigitVal(c) == (CHOOSE i \in 1..10 : Digits[i] = c) - 1

\* str() of a non-negative int
RECURSIVE NatStr(_)
NatStr(n) == IF n < 10 THEN <<Digits[n + 1]>>
             ELSE NatStr(n \div 10) \o <<Digits[(n % 10) + 1]>>

\* Mutant of IntStr: the sign is left out.
IntStrUnsigned(i) == IF i < 0 THEN NatStr(-i) ELSE NatStr(i)

\* str() of an int
IntStr(i) == IF i < 0 THEN <<"-">> \o NatStr(-i) ELSE NatStr(i)

\* value of a non-empty sequence of digits
RECURSIVE DigitsVal(_)
DigitsVal(s) == IF Len(s) = 0 THEN 0
                ELSE 10 * DigitsVal(SubSeq(s, 1, Len(s) - 1)) + DigitVal(s[Len(s)])

AllDigits(s) == Len(s) > 0 /\ \A i \in 1..Len(s) : IsDigit(s[i])

\* int(str): an optional sign and decimal digits; anything else raises
\* ValueError.  (Blanks and underscores, which int() also accepts, are not
\* in any text this model sends.)
IntOk(s) == \/ AllDigits(s)
            \/ Len(s) > 1 /\ s[1] \in {"-", "+"} /\ AllDigits(Tail(s))

IntVal(s) == IF s[1] = "-" THEN 0 - DigitsVal(Tail(s))
             ELSE IF s[1] = "+" THEN DigitsVal(Tail(s))
             ELSE DigitsVal(s)

\* str.replace("\n", "")
RECURSIVE StripNL(_)
StripNL(s) == IF s = <<>> THEN <<>>
              ELSE IF Head(s) = NL THEN StripNL(Tail(s))
              ELSE <<Head(s)>> \o StripNL(Tail(s))

FRAME == <<"F", "R", "A", "M", "E">>
VECT == <<"V", "E", "C", "T">>

\* 'OK ' + exptype
Ack(exptype) == <<"O", "K", " ">> \o exptype

EmptyToken == <<"[", "]">>

\* Mutants of PyStr: the empty list is written as the vector (0, 0); as the
\* empty tuple.
PyStrZero(msg) == IF msg = <<>> THEN <<"(", "0", ",", " ", "0", ")">>
                  ELSE <<"(">> \o IntStr(msg[1]) \o <<",", " ">> \o IntStr(msg[2]) \o <<")">>

PyStrTuple(msg) == IF msg = <<>> THEN <<"(", ")">>
                   ELSE <<"(">> \o IntStr(msg[1]) \o <<",", " ">> \o IntStr(msg[2]) \o <<")">>

\* str() of what send_msg is given in main.py: the empty list or a 2-tuple
PyStr(msg) == IF msg = <<>> THEN EmptyToken
              ELSE <<"(">> \o IntStr(msg[1]) \o <<",", " ">> \o IntStr(msg[2]) \o <<")">>

\* ----------------------------------------------------------------- frames
\* The bytes of the frames: a fixed pattern with line ends in it, so that
\* readline() cuts chunks of different lengths and no two positions within
\* a chunk length of each other hold the same neighbourhood.
Pattern == <<"a", "b", NL, "c", "d", "e", "f", NL, "g", "h", "i", "j", "k">>

MkFrame(n) == [i \in 1..n |-> Pattern[((i - 1) % Len(Pattern)) + 1]]

\* The lengths of the frames the camera writes: none, one byte, two lines,
\* a length of two digits, and the longest, longer than one read.
FrameLens == {0, 1, 4, 10, MaxFrameLen}

\* A frame with no line end in it, longer than one read: readline() cuts it
\* by its size alone.
Flat == <<"p", "q", "r", "s", "t", "u", "v", "w", "x", "y", "z">>

MkFlat(n) == [i \in 1..n |-> Flat[((i - 1) % Len(Flat)) + 1]]

Frames == {MkFrame(n) : n \in FrameLens} \cup {MkFlat(MaxFrameLen)}

\* ---------------------------------------------------------------- streams
Seg(kind, data) == [kind |-> kind, data |-> data, whole |-> TRUE]

RECURSIVE Bytes(_)
Bytes(segs) == IF segs = <<>> THEN <<>> ELSE Head(segs).data \o Bytes(Tail(segs))

\* the stream after its first n bytes have been read
RECURSIVE Drop(_, _)
Drop(segs, n) ==
    IF n = 0 \/ segs = <<>> THEN segs
    ELSE IF Len(Head(segs).data) <= n
         THEN Drop(Tail(segs), n - Len(Head(segs).data))
         ELSE <<[Head(segs) EXCEPT !.data = SubSeq(@, n + 1, Len(@)),
                                   !.whole = FALSE]>> \o Tail(segs)

\* socket.send(data): the bytes join the stream (an empty send adds nothing)
Push(segs, kind, data) == IF data = <<>> THEN segs ELSE Append(segs, Seg(kind, data))

\* The lengths socket.recv(bufsize) may return: any non-empty prefix of the
\* pending bytes, 0 bytes once the peer has closed; it blocks (no length)
\* while nothing is pending on an open connection.
RecvLens(segs, peerClosed, bufsize) ==
    IF segs # <<>> THEN 1..Min(bufsize, Len(Bytes(segs)))
    ELSE IF peerClosed THEN {0} ELSE {}

RecvData(segs, n) == SubSeq(Bytes(segs), 1, n)

\* the kinds of the messages that are read with one recv() each
Control == {"size", "ack", "vect", "result", "inject"}

\* a read of n bytes ends inside a protocol message
Splits(segs, n) == LET rest == Drop(segs, n)
                   IN  rest # <<>> /\ ~Head(rest).whole /\ Head(rest).kind \in Control

\* an entry of the histories: what was sent, received or called, with the
\* bytes that were
Ev(op, kind, data) == [op |-> op, kind |-> kind, data |-> data]

\* ------------------------------------------------------------------ state
Conns == 1..Iterations

VARIABLES
    \* client (main_client.run_catcher_rover)
    cpc,            \* where the client is
    count,          \* the loop variable of `for count in range(..)`
    frame,          \* the bytes of capture_loc/frame.jpg
    frame_on_disk,  \* whether that file exists
    fpos,           \* read position of filedesc in send_frame
    cmsg,           \* msg of the client's waiting_for_ack
    recv_string,    \* the result message as read
    recv_vect,      \* literal_eval(recv_string)
    overrides,      \* vehicle.channels.overrides, <<>> while never set
    cerr,           \* the exception that ended the client, or "none"
    instance,       \* the cloud instance: "created" or "deleted"
    \* server (main.start_server)
    spc,            \* where the server is
    sconn,          \* the connection accept() returned, 0 before the first
    frame_size,     \* the parsed size header
    img_size,       \* bytes written by receive_frame
    framebuf,       \* the bytes of inbox_loc/frame.jpg
    results,        \* the detector's output, then the vector
    smsg,           \* msg of the server's waiting_for_ack
    serr,           \* the exception that ended the server, or "none"
    \* transport
    listening,      \* the server socket is listening
    backlog,        \* connections established and not yet accepted
    c2s,            \* per connection: pending bytes, client to server
    s2c,            \* per connection: pending bytes, server to client
    cclosed,        \* per connection: the client's end is closed
    sclosed,        \* per connection: the server's end is closed
    \* history
    clog,           \* what the client did in its current exchange
    slog,           \* what the server did in its current exchange
    split,          \* some read ended inside a protocol message
    faults,         \* environment faults so far
    \* a function called on its own
    call,           \* the function and its arguments, NoCall when none is
    ret,            \* what it returned, <<>> before it has
    \* the objects of the client's start-up (net.Ssh, rover.Rover)
    ssh_pc,         \* where remote_connect is
    retry_count,    \* its argument
    ssh_count,      \* its local variable count
    attempts,       \* the calls of client.connect() it has made
    connected,      \* whether the paramiko client is connected
    ssh_log,        \* the errors it has logged
    mode,           \* vehicle.mode
    mode_log        \* the level of the last entry change_rover_mode logged

cvars == <<cpc, count, frame, frame_on_disk, fpos, cmsg, recv_string, recv_vect,
           overrides, cerr, instance>>
svars == <<spc, sconn, frame_size, img_size, framebuf, results, smsg, serr>>
tvars == <<listening, backlog, c2s, s2c, cclosed, sclosed>>
hvars == <<clog, slog, split, faults>>
ovars == <<ssh_pc, retry_count, ssh_count, attempts, connected, ssh_log, mode, mode_log>>
uvars == <<call, ret, ovars>>
vars == <<cvars, svars, tvars, hvars, uvars>>

\* no function is called on its own
NoCall == [fn |-> "none", args |-> <<>>]

\* the two processes before their first step
Start ==
    /\ cpc = "connect" /\ count = 0 /\ frame = <<>> /\ frame_on_disk = FALSE
    /\ fpos = 0 /\ cmsg = <<>> /\ recv_string = <<>> /\ recv_vect = <<>>
    /\ overrides = <<>> /\ cerr = "none" /\ instance = "created"
    /\ spc = "listen" /\ sconn = 0 /\ frame_size = 0 /\ img_size = 0
    /\ framebuf = <<>> /\ results = <<>> /\ smsg = <<>> /\ serr = "none"
    /\ listening = FALSE /\ backlog = <<>>
    /\ c2s = [c \in Conns |-> <<>>] /\ s2c = [c \in Conns |-> <<>>]
    /\ cclosed = [c \in Conns |-> FALSE] /\ sclosed = [c \in Conns |-> FALSE]
    /\ clog = <<>> /\ slog = <<>> /\ split = FALSE /\ faults = 0

\* the objects of the start-up at rest: no remote_connect under way, the
\* rover in the mode line 114 of main_client.py asks for
AtRest ==
    /\ ssh_pc = "idle" /\ retry_count = 0 /\ ssh_count = 0 /\ attempts = 0
    /\ connected = FALSE /\ ssh_log = <<>>
    /\ mode = "MANUAL" /\ mode_log = "none"

Init == Start /\ call = NoCall /\ ret = <<>> /\ AtRest

\* Mutant of conn: after the first iteration the client goes on with the
\* connection of the iteration before.
connStale == IF count = 0 THEN count + 1 ELSE count

\* the connection of the client's current iteration
conn == count + 1

\* ----------------------------------------------------------------- client
\* An uncaught exception ends the client process: its socket closes.
ClientRaise(exc) ==
    /\ cpc' = "crashed"
    /\ cerr' = exc
    /\ cclosed' = [c \in Conns |-> cclosed[c] \/ c <= conn]

\* init_client_socket: connect() succeeds once the server listens and is
\* refused when the server process is gone; rebinding client_socket drops
\* the previous iteration's socket, which closes it.
init_client_socket ==
    /\ cpc = "connect"
    /\ \/ /\ listening
          /\ backlog' = Append(backlog, conn)
          /\ cclosed' = [c \in Conns |-> cclosed[c] \/ c < conn]
          /\ cpc' = "capture"
          /\ clog' = <<>>
          /\ UNCHANGED cerr
       \/ /\ ~listening /\ spc = "crashed"
          /\ ClientRaise("ConnectionRefusedError")
          /\ UNCHANGED <<backlog, clog>>
    /\ UNCHANGED <<count, frame, frame_on_disk, fpos, cmsg, recv_string, recv_vect,
                   overrides, instance, svars, listening, c2s, s2c, sclosed, slog,
                   split, faults>>
    /\ UNCHANGED uvars

\* cam.capture(): the camera writes some frame to capture_loc/frame.jpg
capture ==
    /\ cpc = "capture"
    /\ \E f \in Frames : frame' = f
    /\ frame_on_disk' = TRUE
    /\ fpos' = 0
    /\ cpc' = "send_size"
    /\ UNCHANGED <<count, cmsg, recv_string, recv_vect, overrides, cerr, instance,
                   svars, tvars, hvars>>
    /\ UNCHANGED uvars

\* os.path.getsize(frame_loc)
getsize(f) == Len(f)

send_frame_size ==
    /\ cpc = "send_size"
    /\ c2s' = [c2s EXCEPT ![conn] = Push(@, "size", IntStr(getsize(frame)))]
    /\ clog' = Append(clog, Ev("send", "size", IntStr(getsize(frame))))
    /\ cpc' = "wait_ack1"
    /\ UNCHANGED <<count, frame, frame_on_disk, fpos, cmsg, recv_string, recv_vect,
                   overrides, cerr, instance, svars, listening, backlog, s2c, cclosed, sclosed,
                   slog, split, faults>>
    /\ UNCHANGED uvars

\* Mutants of AckMatches: the wait ends on any message that starts with
\* 'OK'; on any non-empty message; on any message that starts with 'OK '.
AckStartsOK(msg, exptype) == Len(msg) >= 2 /\ SubSeq(msg, 1, 2) = <<"O", "K">>

AckAny(msg, exptype) == msg # <<>>

AckAnyTag(msg, exptype) == Len(msg) > 3 /\ SubSeq(msg, 1, 3) = <<"O", "K", " ">>

\* the loop condition of waiting_for_ack, negated: the wait ends on msg
AckMatches(msg, exptype) == msg = Ack(exptype)

\* One recv() of the client's waiting_for_ack(client_socket), and the test
\* of the loop: the wait ends only on 'OK FRAME'.
client_waiting_for_ack ==
    /\ cpc \in {"wait_ack1", "wait_ack2"}
    /\ \E n \in RecvLens(s2c[conn], sclosed[conn], BufSize) :
          /\ cmsg' = RecvData(s2c[conn], n)
          /\ s2c' = [s2c EXCEPT ![conn] = Drop(@, n)]
          /\ split' = (split \/ Splits(s2c[conn], n))
    /\ IF AckMatches(cmsg', FRAME)
       THEN /\ cpc' = IF cpc = "wait_ack1" THEN "send_frame" ELSE "send_vect"
            /\ clog' = Append(clog, Ev("recv", "ack", cmsg'))
       ELSE UNCHANGED <<cpc, clog>>
    /\ UNCHANGED <<count, frame, frame_on_disk, fpos, recv_string, recv_vect, overrides,
                   cerr, instance, svars, listening, backlog, c2s, cclosed, sclosed, slog, faults>>
    /\ UNCHANGED uvars

\* filedesc.readline(size) at position pos: up to and including the next
\* line end, at most size bytes, empty at the end of the file
RECURSIVE LineEnd(_, _, _)
LineEnd(f, pos, size) ==
    IF size = 0 \/ pos >= Len(f) THEN pos
    ELSE IF f[pos + 1] = NL THEN pos + 1
    ELSE LineEnd(f, pos + 1, size - 1)

\* Mutants of readline: the rest of the file is returned, whatever its
\* length; only the first line of the file is ever returned.
readlineAll(f, pos, size) == SubSeq(f, pos + 1, Len(f))

readlineOnce(f, pos, size) == IF pos > 0 THEN <<>> ELSE SubSeq(f, 1, LineEnd(f, 0, size))

readline(f, pos, size) == SubSeq(f, pos + 1, LineEnd(f, pos, size))

\* One turn of the loop of send_frame: a chunk is sent, or the file is at
\* its end and send_frame returns.
send_frame ==
    /\ cpc = "send_frame"
    /\ LET buf == readline(frame, fpos, BufSize)
       IN  IF buf # <<>>
           THEN /\ c2s' = [c2s EXCEPT ![conn] = Push(@, "frame", buf)]
                /\ fpos' = fpos + Len(buf)
                /\ clog' = Append(clog, Ev("send", "frame", buf))
                /\ UNCHANGED cpc
           ELSE /\ cpc' = "wait_ack2"
                /\ UNCHANGED <<c2s, fpos, clog>>
    /\ UNCHANGED <<count, frame, frame_on_disk, cmsg, recv_string, recv_vect,
                   overrides, cerr, instance, svars, listening, backlog, s2c, cclosed, sclosed,
                   slog, split, faults>>
    /\ UNCHANGED uvars

\* socks.send_msg(client_socket, "OK VECT")
send_vect ==
    /\ cpc = "send_vect"
    /\ c2s' = [c2s EXCEPT ![conn] = Push(@, "vect", Ack(VECT))]
    /\ clog' = Append(clog, Ev("send", "vect", Ack(VECT)))
    /\ cpc' = "recv_result"
    /\ UNCHANGED <<count, frame, frame_on_disk, fpos, cmsg, recv_string, recv_vect,
                   overrides, cerr, instance, svars, listening, backlog, s2c, cclosed, sclosed,
                   slog, split, faults>>
    /\ UNCHANGED uvars

\* ast.literal_eval of a result message, for the texts of the form
\* "(<int>, <int>)"; every other text a peer of this model sends raises
\* (SyntaxError or ValueError) or yields a value recv_vect[0] raises on.
CommaAt(s) == CHOOSE i \in 1..Len(s) : s[i] = "," /\ \A j \in 1..(i - 1) : s[j] # ","

RECURSIVE StripBlanks(_)
StripBlanks(s) == IF s # <<>> /\ Head(s) = " " THEN StripBlanks(Tail(s)) ELSE s

LiteralOk(s) ==
    /\ Len(s) >= 5 /\ s[1] = "(" /\ s[Len(s)] = ")"
    /\ \E i \in 2..(Len(s) - 1) : s[i] = ","
    /\ LET i == CommaAt(s)
       IN  /\ IntOk(SubSeq(s, 2, i - 1))
           /\ IntOk(StripBlanks(SubSeq(s, i + 1, Len(s) - 1)))

literal_eval(s) ==
    LET i == CommaAt(s)
    IN  <<IntVal(SubSeq(s, 2, i - 1)), IntVal(StripBlanks(SubSeq(s, i + 1, Len(s) - 1)))>>

Max(a, b) == IF a > b THEN a ELSE b

\* Mutants of channel_override: no clamping; the throttle follows the yaw.
channel_override_raw(yaw, speed) == <<1500 + yaw, 1500 + speed>>

channel_override_both(yaw, speed) ==
    <<Min(Max(1500 + yaw, 1000), 2000), Min(Max(1500 + yaw, 1000), 2000)>>

\* Rover.channel_override(yaw, speed): the value of channels.overrides
channel_override(yaw, speed) ==
    LET steering == Min(Max(1500 + yaw, 1000), 2000)
        throttle == Min(Max(1500 + speed, 1000), 2000)
    IN  <<steering, throttle>>

\* Mutant of InRange: the loop stops one iteration short.
InRangeShort(n) == n + 1 < Iterations

\* n is a value of `for count in range(..)`
InRange(n) == n < Iterations

\* Mutant of EndIteration: the client goes back to reading the result.
EndIterationAgain ==
    /\ count' = count
    /\ cpc' = "recv_result"

\* The end of an iteration of the loop: the next one, or the end of the
\* run after the last.
EndIteration ==
    /\ count' = count + 1
    /\ cpc' = IF InRange(count + 1) THEN "connect" ELSE "delete_instance"

\* The result is read and used (lines 141 to 152): one recv(), the frame
\* file is removed, and anything but "[]" is evaluated and starts a pulse.
receive_result ==
    /\ cpc = "recv_result"
    /\ \E n \in RecvLens(s2c[conn], sclosed[conn], BufSize) :
          /\ recv_string' = StripNL(RecvData(s2c[conn], n))
          /\ s2c' = [s2c EXCEPT ![conn] = Drop(@, n)]
          /\ split' = (split \/ Splits(s2c[conn], n))
          /\ clog' = Append(clog, Ev("recv", "result", RecvData(s2c[conn], n)))
    /\ frame_on_disk' = FALSE
    /\ IF recv_string' # EmptyToken
       THEN IF LiteralOk(recv_string')
            THEN /\ recv_vect' = literal_eval(recv_string')
                 /\ overrides' = channel_override(recv_vect'[1], 0)
                 /\ cpc' = "rest"
                 /\ UNCHANGED <<count, cerr, cclosed>>
            ELSE /\ ClientRaise("SyntaxError")
                 /\ UNCHANGED <<count, recv_vect, overrides>>
       ELSE /\ EndIteration
            /\ UNCHANGED <<recv_vect, overrides, cerr, cclosed>>
    /\ UNCHANGED <<frame, fpos, cmsg, instance, svars, listening, backlog, c2s,
                   sclosed, slog, faults>>
    /\ UNCHANGED uvars

\* time.sleep(rove.rest_time) is over: the neutral command (line 154)
release ==
    /\ cpc = "rest"
    /\ overrides' = channel_override(0, 0)
    /\ EndIteration
    /\ UNCHANGED <<frame, frame_on_disk, fpos, cmsg, recv_string, recv_vect, cerr,
                   instance, svars, tvars, hvars>>
    /\ UNCHANGED uvars

\* cloud.delete_instance() after the loop; the process then ends, which
\* closes the last socket
delete_instance ==
    /\ cpc = "delete_instance"
    /\ instance' = "deleted"
    /\ cpc' = "done"
    /\ cclosed' = [c \in Conns |-> TRUE]
    /\ UNCHANGED <<count, frame, frame_on_disk, fpos, cmsg, recv_string, recv_vect,
                   overrides, cerr, svars, listening, backlog, c2s, s2c, sclosed, hvars>>
    /\ UNCHANGED uvars

\* ----------------------------------------------------------------- server
\* An uncaught exception ends the server process: the listening socket and
\* every connection close.
ServerRaise(exc) ==
    /\ spc' = "crashed"
    /\ serr' = exc
    /\ listening' = FALSE
    /\ backlog' = <<>>
    /\ sclosed' = [c \in Conns |-> TRUE]

\* server_socket.listen(5)
listen ==
    /\ spc = "listen"
    /\ listening' = TRUE
    /\ spc' = "accept"
    /\ UNCHANGED <<cvars, sconn, frame_size, img_size, framebuf, results, smsg, serr,
                   backlog, c2s, s2c, cclosed, sclosed, hvars>>
    /\ UNCHANGED uvars

\* server_socket.accept()
accept ==
    /\ spc = "accept"
    /\ backlog # <<>>
    /\ sconn' = Head(backlog)
    /\ backlog' = Tail(backlog)
    /\ spc' = "recv_size"
    /\ slog' = <<>>
    /\ UNCHANGED <<cvars, frame_size, img_size, framebuf, results, smsg, serr,
                   listening, c2s, s2c, cclosed, sclosed, clog, split, faults>>
    /\ UNCHANGED uvars

\* Mutants of FrameLoop: the loop is never entered; the loop ends one byte
\* early.
FrameLoopNever(img, size) == FALSE

FrameLoopEarly(img, size) == img + 1 < size

\* the condition of the loop of receive_frame
FrameLoop(img, size) == img < size

\* Mutant of RecvSize: every read asks for a full buffer.
RecvSizeFull(remain) == BufSize

\* the size receive_frame asks recv() for
RecvSize(remain) == IF remain < BufSize THEN remain ELSE BufSize

\* Mutant of open_wb: the file is opened for appending.
open_ab(file) == file

\* open(filename, 'wb') in receive_frame: the file is emptied
open_wb(file) == <<>>

\* Lines 110 to 112 up to the first recv() of receive_frame: the size
\* header is read with one recv() and parsed, 'OK FRAME' is sent, and
\* receive_frame opens (empties) the frame file and tests its loop.
receive_size ==
    /\ spc = "recv_size"
    /\ \E n \in RecvLens(c2s[sconn], cclosed[sconn], BufSize) :
          LET str_msg == StripNL(RecvData(c2s[sconn], n))
          IN  /\ c2s' = [c2s EXCEPT ![sconn] = Drop(@, n)]
              /\ split' = (split \/ Splits(c2s[sconn], n))
              /\ IF IntOk(str_msg)
                 THEN /\ frame_size' = IntVal(str_msg)
                      /\ s2c' = [s2c EXCEPT ![sconn] = Push(@, "ack", Ack(FRAME))]
                      /\ slog' = slog \o <<Ev("recv", "size", str_msg),
                                             Ev("send", "ack", Ack(FRAME))>>
                      /\ img_size' = 0
                      /\ framebuf' = open_wb(framebuf)
                      /\ spc' = IF FrameLoop(img_size', frame_size')
                                THEN "recv_frame" ELSE "detect"
                      /\ UNCHANGED <<serr, listening, backlog, sclosed>>
                 ELSE /\ ServerRaise("ValueError")
                      /\ UNCHANGED <<frame_size, s2c, slog, img_size, framebuf>>
    /\ UNCHANGED <<cvars, sconn, results, smsg, cclosed, clog, faults>>
    /\ UNCHANGED uvars

\* One turn of the loop of receive_frame: a recv(), the write, the count,
\* and the test of the loop.
receive_frame ==
    /\ spc = "recv_frame"
    /\ LET remain == frame_size - img_size
       IN  \E n \in RecvLens(c2s[sconn], cclosed[sconn], RecvSize(remain)) :
              LET data == RecvData(c2s[sconn], n)
              IN  /\ c2s' = [c2s EXCEPT ![sconn] = Drop(@, n)]
                  /\ split' = (split \/ Splits(c2s[sconn], n))
                  /\ framebuf' = framebuf \o data
                  /\ img_size' = img_size + Len(data)
                  /\ slog' = IF n > 0 /\ slog[Len(slog)].kind # "frame"
                             THEN Append(slog, Ev("recv", "frame", <<>>)) ELSE slog
    /\ spc' = IF FrameLoop(img_size', frame_size) THEN "recv_frame" ELSE "detect"
    /\ UNCHANGED <<cvars, sconn, frame_size, results, smsg, serr, listening, backlog,
                   s2c, cclosed, sclosed, clog, faults>>
    /\ UNCHANGED uvars

\* What dark.detect may return for a frame: a list of (label, confidence,
\* box) sorted by falling confidence (confidences in percent).
Det(label, prob, box) == <<label, prob, box>>

DetectorOutputs ==
    { <<>>,
      <<Det(<<"c", "a", "t">>, 90, <<300, 200, 340, 260>>)>>,
      <<Det(<<"c", "a", "t">>, 95, <<300, 200, 340, 260>>),
        Det(<<"d", "o", "g">>, 90, <<10, 20, 30, 40>>),
        Det(<<"7">>, 40, <<1, 2, 3, 4>>)>>,
      <<Det(<<"c", "a", "t">>, 95, <<300, 200, 340, 260>>),
        Det(<<"d", "o", "g">>, 90, <<10, 20, 30, 40>>),
        Det(<<"o", "w", "l">>, 40, <<1, 2, 3, 4>>)>> }

\* What utils.get_image_size may return: None (here <<>>) or (width, height)
ImageShapes == {<<>>, <<640, 480>>}

\* Mutant of IntOfHalf: the division rounds down.
IntOfHalfFloor(a) == a \div 2

\* int(a / 2) for an int a: true division, then truncation toward zero
IntOfHalf(a) == IF a >= 0 THEN a \div 2 ELSE 0 - ((0 - a) \div 2)

\* The locals of compute_translation_vector (lines 73 to 80) when results
\* is one detection (label, confidence, box) of integers, as its docstring
\* has it, and im_shape a pair (width, height): results[2] is the box.
im_xcenter(im_shape) == IntOfHalf(im_shape[1])

im_ycenter(im_shape) == IntOfHalf(im_shape[2])

res_xcenter(res) == res[3][1] + IntOfHalf(res[3][3] - res[3][1])

res_ycenter(res) == res[3][2] + IntOfHalf(res[3][4] - res[3][2])

xcenter(res, im_shape) == res_xcenter(res) - im_xcenter(im_shape)

ycenter(res, im_shape) == res_ycenter(res) - im_ycenter(im_shape)

\* what compute_translation_vector returns then (line 82)
translation_vector(res, im_shape) == <<xcenter(res, im_shape), ycenter(res, im_shape)>>

\* Mutant of HasDetection: the vector is computed for every result.
HasDetectionAlways(res) == TRUE

\* `if results:` (line 122)
HasDetection(res) == res # <<>>

\* compute_translation_vector(results, image), given the whole list dark.detect
\* returned (main.py line 123): the exception it raises.  Line 73 indexes
\* im_shape; line 76 takes results[2], the third detection, whose [0] is
\* its label, and subtracts that label from results[2][2], its box.
compute_translation_vector(res, im_shape) ==
    IF im_shape = <<>> THEN "TypeError"
    ELSE IF Len(res) < 3 THEN "IndexError"
    ELSE IF ~IntOk(res[3][1]) THEN "ValueError"
    ELSE "TypeError"

\* Lines 117 to 126: detection, the vector when there is a detection, and
\* the second 'OK FRAME'.
detect ==
    /\ spc = "detect"
    /\ \E res \in DetectorOutputs, im_shape \in ImageShapes :
          IF HasDetection(res)
          THEN /\ ServerRaise(compute_translation_vector(res, im_shape))
               /\ results' = res
               /\ slog' = slog \o <<Ev("call", "detect", framebuf),
                                      Ev("call", "vector", <<>>)>>
               /\ UNCHANGED s2c
          ELSE /\ results' = res
               /\ s2c' = [s2c EXCEPT ![sconn] = Push(@, "ack", Ack(FRAME))]
               /\ slog' = slog \o <<Ev("call", "detect", framebuf),
                                      Ev("send", "ack", Ack(FRAME))>>
               /\ spc' = "wait_vect"
               /\ UNCHANGED <<serr, listening, backlog, sclosed>>
    /\ UNCHANGED <<cvars, sconn, frame_size, img_size, framebuf, smsg, c2s, cclosed,
                   clog, split, faults>>
    /\ UNCHANGED uvars

\* Mutant of close: the socket is left open.
closeNot(closed, c) == closed

\* client.close() (line 138)
close(closed, c) == [closed EXCEPT ![c] = TRUE]

\* Lines 132 to 138: one recv() of waiting_for_ack(client, "VECT") and the
\* test of its loop; once the wait ends the result is sent and the
\* connection closed.
server_waiting_for_ack ==
    /\ spc = "wait_vect"
    /\ \E n \in RecvLens(c2s[sconn], cclosed[sconn], BufSize) :
          /\ smsg' = RecvData(c2s[sconn], n)
          /\ c2s' = [c2s EXCEPT ![sconn] = Drop(@, n)]
          /\ split' = (split \/ Splits(c2s[sconn], n))
    /\ IF AckMatches(smsg', VECT)
       THEN /\ s2c' = [s2c EXCEPT ![sconn] = Push(@, "result", PyStr(results))]
            /\ slog' = slog \o <<Ev("recv", "vect", smsg'),
                                   Ev("send", "result", PyStr(results))>>
            /\ sclosed' = close(sclosed, sconn)
            /\ spc' = "listen"
       ELSE UNCHANGED <<s2c, slog, sclosed, spc>>
    /\ UNCHANGED <<cvars, sconn, frame_size, img_size, framebuf, results, serr,
                   listening, backlog, cclosed, clog, faults>>
    /\ UNCHANGED uvars

\* ------------------------------------------------------------ environment
InExchange == cpc \in {"capture", "send_size", "wait_ack1", "send_frame", "wait_ack2",
                       "send_vect", "recv_result", "rest"}

\* The client process is killed, or its host goes down, in the middle of an
\* exchange: its end of the connection closes.
kill ==
    /\ faults < MaxFaults
    /\ InExchange
    /\ cpc' = "killed"
    /\ cclosed' = [c \in Conns |-> cclosed[c] \/ c <= conn]
    /\ faults' = faults + 1
    /\ UNCHANGED <<count, frame, frame_on_disk, fpos, cmsg, recv_string, recv_vect,
                   overrides, cerr, instance, svars, listening, backlog, c2s, s2c,
                   sclosed, clog, slog, split>>
    /\ UNCHANGED uvars

\* dark.detect raises (the library call fails, the frame file cannot be
\* loaded): line 118 is not in a try, so the exception ends the server
\* before results is assigned.
detect_raises ==
    /\ faults < MaxFaults
    /\ spc = "detect"
    /\ ServerRaise("DetectorError")
    /\ slog' = slog \o <<Ev("call", "detect", framebuf), Ev("raise", "detect", <<>>)>>
    /\ faults' = faults + 1
    /\ UNCHANGED <<cvars, sconn, frame_size, img_size, framebuf, results, smsg, c2s,
                   s2c, cclosed, clog, split>>
    /\ UNCHANGED uvars

\* What a peer that does not follow the protocol may send the client, and
\* the server
InjectS2C == {Ack(FRAME), Ack(VECT), PyStr(<<0, -10>>), PyStr(<<700, 5>>)}

InjectC2S == {Ack(FRAME), <<"-", "5">>, <<"a", "b", "c">>}

\* A message of such a peer arrives on the client's current connection,
\* for a reader that is blocked waiting for one.
inject ==
    /\ faults < MaxFaults
    /\ \/ /\ cpc \in {"wait_ack1", "wait_ack2", "recv_result"}
          /\ s2c[conn] = <<>>
          /\ \E m \in InjectS2C : s2c' = [s2c EXCEPT ![conn] = Push(@, "inject", m)]
          /\ UNCHANGED c2s
       \/ /\ spc \in {"recv_size", "wait_vect"} /\ InExchange /\ sconn = conn
          /\ c2s[conn] = <<>>
          /\ \E m \in InjectC2S : c2s' = [c2s EXCEPT ![conn] = Push(@, "inject", m)]
          /\ UNCHANGED s2c
    /\ faults' = faults + 1
    /\ UNCHANGED <<cvars, svars, listening, backlog, cclosed, sclosed, clog, slog, split>>
    /\ UNCHANGED uvars

\* ------------------------------------------------- functions on their own
Coords == (0 - MaxCoord)..MaxCoord

\* compute_translation_vector for one detection: every box and image size
\* within the bounds, and a box in a 640 by 480 frame
VectorCalls ==
    {[fn |-> "compute_translation_vector",
      args |-> <<Det(<<"c", "a", "t">>, 90, <<x1, y1, x2, y2>>), <<w, h>>>>] :
        x1 \in Coords, y1 \in Coords, x2 \in Coords, y2 \in Coords,
        w \in 0..MaxCoord, h \in 0..MaxCoord}
    \cup {[fn |-> "compute_translation_vector",
           args |-> <<Det(<<"c", "a", "t">>, 90, <<300, 200, 340, 260>>), <<640, 480>>>>]}

\* channel_override: every yaw with the speeds around the ends of the
\* range, and every speed with such yaws
Ends == {0 - MaxYaw, -501, -500, -499, -1, 0, 1, 499, 500, 501, MaxYaw}

OverrideCalls ==
    {[fn |-> "channel_override", args |-> <<yaw, speed>>] :
        yaw \in (0 - MaxYaw)..MaxYaw, speed \in Ends}
    \cup {[fn |-> "channel_override", args |-> <<yaw, speed>>] :
           yaw \in Ends, speed \in (0 - MaxYaw)..MaxYaw}

\* send_msg(client, results) with the two kinds of values main.py means to
\* give it: the empty list, and a pair of ints
ResultCalls ==
    {[fn |-> "send_msg", args |-> <<msg>>] :
        msg \in {<<>>} \cup (((0 - MaxVect)..MaxVect) \X ((0 - MaxVect)..MaxVect))}

UnitInit ==
    /\ Start
    /\ AtRest
    /\ ret = <<>>
    /\ \/ call \in VectorCalls
       \/ call \in OverrideCalls
       \/ call \in ResultCalls

call_compute_translation_vector ==
    /\ call.fn = "compute_translation_vector" /\ ret = <<>>
    /\ ret' = translation_vector(call.args[1], call.args[2])
    /\ UNCHANGED <<cvars, svars, tvars, hvars, call, ovars>>

call_channel_override ==
    /\ call.fn = "channel_override" /\ ret = <<>>
    /\ ret' = channel_override(call.args[1], call.args[2])
    /\ UNCHANGED <<cvars, svars, tvars, hvars, call, ovars>>

\* What the client makes of the bytes of a result message (lines 141 to
\* 148): "[]" is no vector, any other text is evaluated.
consume_result(bytes) ==
    LET str == StripNL(bytes)
    IN  IF str = EmptyToken THEN <<"none", <<>>>>
        ELSE IF LiteralOk(str) THEN <<"vector", literal_eval(str)>>
        ELSE <<"SyntaxError", <<>>>>

\* send_msg(client, msg) on the server, and the client's reading of what
\* was sent: the text, the kind of the outcome, and the vector
call_send_msg ==
    /\ call.fn = "send_msg" /\ ret = <<>>
    /\ LET sent == PyStr(call.args[1])
       IN  ret' = <<sent>> \o consume_result(sent)
    /\ UNCHANGED <<cvars, svars, tvars, hvars, call, ovars>>

\* ------------------------------------------- the objects of the start-up
RetryCounts == -1..MaxRetry

\* Mutant of RetryLoop: one more turn.
RetryLoopOneMore(c, r) == c <= r

\* `while count < int(retry_count)` of remote_connect
RetryLoop(c, r) == c < r

\* One turn of the loop of remote_connect: client.connect() returns, and
\* the loop is left; or it raises NoValidConnectionsError, which is caught
\* and counted; or it raises another exception (authentication, a bad host
\* key, ...), which is not caught and ends remote_connect.
remote_connect_attempt ==
    /\ ssh_pc = "loop"
    /\ RetryLoop(ssh_count, retry_count)
    /\ attempts' = attempts + 1
    /\ \/ /\ connected' = TRUE
          /\ ssh_pc' = "after"
          /\ UNCHANGED <<ssh_count, ssh_log>>
       \/ /\ ssh_count' = ssh_count + 1
          /\ ssh_log' = Append(ssh_log, "warning")
          /\ UNCHANGED <<ssh_pc, connected>>
       \/ /\ ssh_pc' = "raised"
          /\ UNCHANGED <<ssh_count, connected, ssh_log>>
    /\ UNCHANGED <<cvars, svars, tvars, hvars, call, ret, retry_count, mode, mode_log>>

\* The loop of remote_connect is over (its condition is false, or the break
\* was taken): the test of line 379, and the return.
remote_connect_return ==
    /\ ssh_pc = "after" \/ (ssh_pc = "loop" /\ ~RetryLoop(ssh_count, retry_count))
    /\ ssh_log' = IF ssh_count >= retry_count THEN Append(ssh_log, "timeout") ELSE ssh_log
    /\ ssh_pc' = "returned"
    /\ UNCHANGED <<cvars, svars, tvars, hvars, call, ret, retry_count, ssh_count, attempts,
                   connected, mode, mode_log>>

\* the modes change_rover_mode accepts (line 186)
Modes == {"MANUAL", "AUTO", "GUIDED", "RETURN_TO_LAUNCH"}

\* the modes it is called with, and the modes the vehicle starts in
ModeArgs == Modes \cup {"HOLD", "manual", "RTL"}
VehicleModes == Modes \cup {"HOLD", "INITIALISING"}

\* Mutant of KnownMode: every mode is taken.
KnownModeAny(m) == TRUE

\* the test of line 186, negated
KnownMode(m) == m \in Modes

\* Rover.change_rover_mode(m): vehicle.mode is assigned for a known mode,
\* and an error is logged for any other
change_rover_mode ==
    /\ \E m \in ModeArgs :
          /\ call' = [fn |-> "change_rover_mode", args |-> <<m>>]
          /\ IF KnownMode(m)
             THEN mode' = m /\ mode_log' = "info"
             ELSE mode' = mode /\ mode_log' = "error"
    /\ UNCHANGED <<cvars, svars, tvars, hvars, ret, ssh_pc, retry_count, ssh_count,
                   attempts, connected, ssh_log>>

StartInit ==
    /\ Start /\ call = NoCall /\ ret = <<>>
    /\ ssh_pc = "loop" /\ retry_count \in RetryCounts /\ ssh_count = 0 /\ attempts = 0
    /\ connected = FALSE /\ ssh_log = <<>>
    /\ mode \in VehicleModes /\ mode_log = "none"

\* ------------------------------------------------------------ the program
Next ==
    \/ init_client_socket
    \/ capture
    \/ send_frame_size
    \/ client_waiting_for_ack
    \/ send_frame
    \/ send_vect
    \/ receive_result
    \/ delete_instance
    \/ listen
    \/ accept
    \/ receive_size
    \/ receive_frame
    \/ detect
    \/ server_waiting_for_ack

\* The two processes with the frames and detector outputs as the only
\* choices of the environment, besides the transport's.
Spec == Init /\ [][Next]_vars

\* Both processes keep running while they have a step to take: a process
\* blocked in recv() has none, and a recv() that returns changes nothing
\* when the loop around it goes on with the state it had.
FairSpec == Spec /\ WF_vars(Next)

\* The same with the faults.  release is a step of the client that only a
\* result other than "[]" leads to.
FaultNext == Next \/ release \/ kill \/ inject \/ detect_raises

FaultSpec == Init /\ [][FaultNext]_vars

\* The faults are never owed; the steps of the two processes are.
FairFaultSpec == FaultSpec /\ WF_vars(Next \/ release)

\* A function of the program called once, on arguments of its own.
UnitNext == call_compute_translation_vector \/ call_channel_override \/ call_send_msg

UnitSpec == UnitInit /\ [][UnitNext]_vars

\* The objects of the client's start-up, each called on its own:
\* remote_connect once for every retry_count, its turns owed while it runs,
\* and change_rover_mode any number of times.
StartNext == remote_connect_attempt \/ remote_connect_return \/ change_rover_mode

StartSpec == StartInit /\ [][StartNext]_vars
                       /\ WF_vars(remote_connect_attempt \/ remote_connect_return)

\* ================================================================== claims
\* the entries of a history of one kind, in order
RECURSIVE Pick(_, _, _)
Pick(log, op, kind) ==
    IF log = <<>> THEN <<>>
    ELSE IF Head(log).op = op /\ Head(log).kind = kind
         THEN <<Head(log)>> \o Pick(Tail(log), op, kind)
         ELSE Pick(Tail(log), op, kind)

\* the positions of a history that hold an entry of one kind
At(log, op, kind) == {i \in 1..Len(log) : log[i].op = op /\ log[i].kind = kind}

\* a run without faults in which every read took whole protocol messages
Discrete == faults = 0 /\ ~split

\* blocked in recv(): nothing pending, and the peer's end is open
ClientBlocked == /\ cpc \in {"wait_ack1", "wait_ack2", "recv_result"}
                 /\ s2c[conn] = <<>> /\ ~sclosed[conn]
ServerBlocked == /\ spc \in {"recv_size", "recv_frame", "wait_vect"}
                 /\ c2s[sconn] = <<>> /\ ~cclosed[sconn]

\* C1: whenever receive_frame has returned (the server is about to run the
\* detector), the server's frame file holds the bytes of the client's frame
\* file, all of them and in order, for every frame length and every way the
\* reads of the server cut what the client wrote.
C1_FrameDelivered ==
    (spc = "detect" /\ sconn = conn /\ faults = 0) => framebuf = frame

\* C2: on a reliable stream, with a detector that returns, no state is
\* reached in which both parties are blocked in a read, each waiting for
\* the other.
C2_NoDeadlock ==
    Discrete => ~(ClientBlocked /\ ServerBlocked /\ sconn = conn)

\* C3: no direction of a connection ever holds two unread protocol messages
\* (size header, acknowledgment, result) that one read could return glued
\* together.
C3_NoCoalescing ==
    Discrete =>
        \A c \in Conns :
            /\ Cardinality({i \in 1..Len(s2c[c]) : s2c[c][i].kind \in Control}) <= 1
            /\ Cardinality({i \in 1..Len(c2s[c]) : c2s[c][i].kind \in Control}) <= 1

\* the bytes of the entries of a history, concatenated
RECURSIVE Cat(_)
Cat(log) == IF log = <<>> THEN <<>> ELSE Head(log).data \o Cat(Tail(log))

C5_ResultAfterVect ==
    /\ [](\A i \in At(slog, "send", "result") :
              /\ i > 1
              /\ slog[i - 1] = Ev("recv", "vect", Ack(VECT))
              /\ smsg = Ack(VECT))
    /\ [][(spc = "wait_vect" /\ smsg' # Ack(VECT)) => spc' = "wait_vect"]_vars

C5_Witness ==
    /\ At(slog, "send", "result") # {}
    /\ \E c \in Conns : \E i \in 1..Len(s2c[c]) : s2c[c][i].kind = "result"

\* C6: every frame chunk the client writes comes after it has sent the size
\* header of its frame and then read exactly 'OK FRAME'.
C6_NoFrameBeforeAck ==
    /\ \A i \in At(clog, "send", "frame") :
          /\ i >= 3
          /\ clog[1] = Ev("send", "size", IntStr(Len(frame)))
          /\ clog[2] = Ev("recv", "ack", Ack(FRAME))
    /\ (conn \in Conns /\ \E i \in 1..Len(c2s[conn]) : c2s[conn][i].kind = "frame")
          => At(clog, "send", "frame") # {}

C6_Witness ==
    /\ cpc = "send_frame" /\ 0 < fpos /\ fpos < Len(frame)
    /\ At(clog, "send", "frame") # {}

\* C7: the client sends 'OK VECT' only after it has written the whole frame
\* and then read a second 'OK FRAME', and it reads the result only right
\* after sending 'OK VECT'.
C7_VectAfterFrame ==
    /\ \A i \in At(clog, "send", "vect") :
          /\ i >= 4
          /\ clog[i - 1] = Ev("recv", "ack", Ack(FRAME))
          /\ Cardinality(At(clog, "recv", "ack")) = 2
          /\ \A j \in At(clog, "send", "frame") : 2 < j /\ j < i - 1
          /\ Cat(Pick(clog, "send", "frame")) = frame
    /\ \A j \in At(clog, "recv", "result") :
          j > 1 /\ clog[j - 1] = Ev("send", "vect", Ack(VECT))

C7_Witness ==
    /\ At(clog, "recv", "result") # {}
    /\ Len(frame) = MaxFrameLen

\* C8: a wait for an acknowledgment ends on a read exactly when the message
\* read is 'OK ' and the expected tag; any other message read (the other
\* tag's token, a token cut short or with more bytes after it) is dropped
\* and the wait goes on.
ClientWaits == {"wait_ack1", "wait_ack2"}

ClientReads == Len(Bytes(s2c'[conn])) < Len(Bytes(s2c[conn]))

ServerReads == Len(Bytes(c2s'[sconn])) < Len(Bytes(c2s[sconn]))

C8_AckExact ==
    /\ [][(cpc \in ClientWaits /\ ClientReads)
            => /\ cmsg' = SubSeq(Bytes(s2c[conn]), 1, Len(cmsg'))
               /\ Bytes(s2c'[conn]) = SubSeq(Bytes(s2c[conn]), Len(cmsg') + 1,
                                             Len(Bytes(s2c[conn])))
               /\ IF cmsg' = Ack(FRAME) THEN cpc' \notin ClientWaits ELSE cpc' = cpc]_vars
    /\ [][(spc = "wait_vect" /\ ServerReads)
            => /\ smsg' = SubSeq(Bytes(c2s[sconn]), 1, Len(smsg'))
               /\ IF smsg' = Ack(VECT) THEN spc' # "wait_vect" ELSE spc' = spc]_vars

C8_Witness ==
    /\ cpc \in ClientWaits /\ cmsg = Ack(VECT) /\ faults > 0

\* C9: when the client's end closes after N-1 of the N announced bytes
\* were sent, and the server has read them all, the server leaves the
\* reception of the frame (with a TruncatedFrameError) instead of waiting
\* on, and never runs the detector on the partial frame.
Truncated ==
    /\ spc = "recv_frame" /\ cclosed[sconn] /\ c2s[sconn] = <<>>
    /\ frame_size = Len(frame) /\ img_size = frame_size - 1

C9_TruncatedFrameError ==
    /\ Truncated ~> (spc # "recv_frame")
    /\ [](Truncated => [](spc # "detect"))

\* C10: no wait for an acknowledgment lasts forever, on either side: it ends
\* with the acknowledgment or, when the peer never sends it, with a
\* timeout.  (Stated for the runs in which every read takes whole
\* messages: a wait that a cut token prolongs is left out.)
C10_AckWaitEnds ==
    /\ (cpc \in ClientWaits) ~> (cpc \notin ClientWaits \/ ~Discrete)
    /\ (spc = "wait_vect") ~> (spc # "wait_vect" \/ ~Discrete)

\* what the server's read of the size header returns in this step
SizeRead == SubSeq(Bytes(c2s[sconn]), 1,
                   Len(Bytes(c2s[sconn])) - Len(Bytes(c2s'[sconn])))

\* C11: when the first message the server reads on a connection is not a
\* non-negative decimal integer (other text, or a negative number), the
\* exchange ends there: no 'OK FRAME' is sent, the server does not go on
\* to read frame bytes, and the detector is not called.
C11_ProtocolError ==
    [][(spc = "recv_size" /\ ServerReads /\ ~AllDigits(StripNL(SizeRead)))
          => /\ s2c' = s2c
             /\ spc' \notin {"recv_frame", "detect"}
             /\ At(slog', "send", "ack") = {}]_vars

\* C12: no exchange that fails ends the server process: the server is never
\* stopped by an exception, so that it is back at listen() and accept()
\* for the next connection.
C12_ServerKeepsRunning == spc # "crashed" /\ serr = "none"

\* C13: a failure of the client's exchange (a protocol error, a result that
\* does not parse) never ends the client: no exception stops the loop, which
\* goes on to the next iteration.  (Stated for the runs in which every read
\* takes whole messages of the server.)
C13_IterationAborted == ~split => (cpc # "crashed" /\ cerr = "none")

\* C14: the result the server sends for an empty detection is exactly the
\* two bytes "[]"; a client whose read of the result returns exactly "[]"
\* evaluates nothing, issues no command (the channel overrides stay as they
\* are) and goes on to the next iteration.
C14_EmptyResult ==
    /\ [](\A i \in At(slog, "send", "result") :
              results = <<>> => slog[i].data = <<"[", "]">>)
    /\ [][(cpc = "recv_result" /\ ClientReads /\ recv_string' = <<"[", "]">>)
            => /\ overrides' = overrides /\ recv_vect' = recv_vect
               /\ cerr' = cerr /\ count' = count + 1
               /\ cpc' \in {"connect", "delete_instance"}]_vars

C14_Witness ==
    /\ count > 0 /\ recv_string = <<"[", "]">>
    /\ Pick(clog, "recv", "result") = <<Ev("recv", "result", <<"[", "]">>)>>
    /\ At(slog, "send", "result") # {} /\ results = <<>>

\* the entry of a detection result with the highest confidence, the first
\* of them in detection order
TopEntry(res) ==
    res[CHOOSE i \in 1..Len(res) :
            /\ \A j \in 1..Len(res) : res[j][2] <= res[i][2]
            /\ \A j \in 1..(i - 1) : res[j][2] < res[i][2]]

\* C15: once the server has called the vector computation for a detection
\* result, results is the translation vector of the entry of that result
\* with the highest confidence (the first such entry), for the size of the
\* frame image.
C15_HighestConfidence ==
    At(slog, "call", "vector") # {}
        => \E res \in DetectorOutputs \ {<<>>}, im_shape \in ImageShapes \ {<<>>} :
               results = translation_vector(TopEntry(res), im_shape)

Abs(a) == IF a < 0 THEN 0 - a ELSE a

\* a / 2 truncated toward zero: the integer nearest to a / 2 that lies
\* between it and 0
TruncHalf(a) == CHOOSE t \in (0 - Abs(a))..Abs(a) :
                    /\ Abs(2 * t) <= Abs(a) /\ Abs(a) - Abs(2 * t) <= 1
                    /\ (a >= 0 => t >= 0) /\ (a < 0 => t <= 0)

\* C16: for a box (x_min, y_min, x_max, y_max) and an image size (W, H),
\* compute_translation_vector returns
\* dx = (x_min + trunc((x_max - x_min) / 2)) - trunc(W / 2) and
\* dy = (y_min + trunc((y_max - y_min) / 2)) - trunc(H / 2), the divisions
\* truncating toward zero; for (640, 480) and (300, 200, 340, 260) it
\* returns (0, -10).
C16_TranslationVector ==
    (call.fn = "compute_translation_vector" /\ ret # <<>>)
        => LET box == call.args[1][3]
               W == call.args[2][1]
               H == call.args[2][2]
           IN  /\ ret[1] = (box[1] + TruncHalf(box[3] - box[1])) - TruncHalf(W)
               /\ ret[2] = (box[2] + TruncHalf(box[4] - box[2])) - TruncHalf(H)
               /\ (box = <<300, 200, 340, 260>> /\ W = 640 /\ H = 480)
                     => ret = <<0, -10>>

C16_Witness ==
    /\ call.fn = "compute_translation_vector"
    /\ call.args[1][3] = <<1, 0, -2, 3>> /\ call.args[2] = <<3, 2>>
    /\ ret = <<-1, 0>>

\* clamp(v, 1000, 2000), by cases
Clamped(v) == IF v < 1000 THEN 1000 ELSE IF v > 2000 THEN 2000 ELSE v

Neutral == <<1500, 1500>>

\* C18: for a received vector (dx, dy) the client issues the command
\* (clamp(1500 + dx), 1500), holds, and then issues the neutral command
\* (1500, 1500), and nothing else: the throttle is 1500 in every command,
\* the overrides change in these two steps only (none during the hold), and
\* wherever the client is outside the hold the last command issued, if any,
\* is the neutral one.
C18_PulseThenNeutral ==
    /\ [](overrides # <<>> => (overrides[1] \in 1000..2000 /\ overrides[2] = 1500))
    /\ []((overrides # <<>> /\ cpc \notin {"rest", "killed"}) => overrides = Neutral)
    /\ [][(cpc = "recv_result" /\ cpc' = "rest")
            => overrides' = <<Clamped(1500 + recv_vect'[1]), 1500>>]_vars
    /\ [][(cpc = "rest" /\ cpc' \notin {"rest", "killed"})
            => (overrides' = Neutral /\ count' = count + 1)]_vars
    /\ [][overrides' # overrides
            => \/ cpc = "recv_result" /\ cpc' = "rest"
               \/ cpc = "rest" /\ cpc' \notin {"rest", "killed"}]_vars

C18_Witness ==
    /\ count > 0 /\ cpc \notin {"rest", "killed"}
    /\ recv_vect = <<700, 5>> /\ overrides = Neutral

\* C19: the server calls compute_translation_vector only right after a
\* detection that returned at least one entry, with that result; after a
\* detection that returned none it goes on to the second 'OK FRAME' without
\* the call.
C19_NoVectorOnEmpty ==
    /\ \A i \in At(slog, "call", "vector") :
          /\ i > 1 /\ slog[i - 1].op = "call" /\ slog[i - 1].kind = "detect"
          /\ results # <<>> /\ results \in DetectorOutputs
    /\ \A i \in At(slog, "call", "detect") :
          (results = <<>> /\ spc # "detect")
              => (At(slog, "call", "vector") = {} /\ serr = "none"
                  /\ i < Len(slog) /\ slog[i + 1] = Ev("send", "ack", Ack(FRAME)))

C19_Witness ==
    /\ At(slog, "call", "detect") # {} /\ results = <<>>
    /\ At(slog, "call", "vector") = {}
    /\ spc = "wait_vect" /\ Len(framebuf) = MaxFrameLen

\* C20: exchanges neither overlap nor share a connection.  The server
\* accepts a connection only when the exchange before has sent its result
\* and closed, and every connection it accepts is a new one; the client's
\* loop variable advances only once the result of its exchange is read, and
\* the connection of an iteration is used by no other; the client sends at
\* most one size header on a connection and the chunks of one frame, and
\* the server reads at most one size header from it.
C20_OneExchangePerConnection ==
    /\ [][(spc = "accept" /\ spc' = "recv_size")
            => /\ sconn' > sconn
               /\ sconn = 0 \/ (sclosed[sconn] /\ At(slog, "send", "result") # {})]_vars
    /\ []((spc \in {"listen", "accept"} /\ sconn # 0)
            => (sclosed[sconn] /\ At(slog, "send", "result") # {}))
    /\ [][count' # count
            => (count' = count + 1 /\ At(clog', "recv", "result") # {})]_vars
    /\ [][\A c \in Conns : (c2s'[c] # c2s[c] /\ Len(Bytes(c2s'[c])) > Len(Bytes(c2s[c])))
                              => (c = conn /\ c = count + 1)]_vars
    /\ [](/\ Cardinality(At(clog, "send", "size")) <= 1
          /\ Cardinality(At(slog, "recv", "size")) <= 1
          /\ Cat(Pick(clog, "send", "frame")) = SubSeq(frame, 1, Len(Cat(Pick(clog, "send", "frame"))))
          /\ \A c \in Conns : c > count + 1 => (c2s[c] = <<>> /\ s2c[c] = <<>>)
          /\ sconn <= count + 1)

C20_Witness ==
    /\ count = 1 /\ sconn = 2 /\ sclosed[1] /\ cclosed[1]
    /\ spc = "recv_frame" /\ img_size > 0
    /\ At(clog, "send", "frame") # {}

Opened == {backlog[i] : i \in 1..Len(backlog)} \cup 1..sconn

\* C22: the client's loop variable never leaves 0..Iterations; an iteration
\* is counted only once its result message was read, and opens one
\* connection; once the loop is over, Iterations exchanges were made, one
\* per connection, no further connection is opened, and the client ends.
C22_BoundedLoop ==
    /\ [](/\ count \in 0..Iterations
          /\ Opened \subseteq 1..Iterations
          /\ cpc \in {"delete_instance", "done"}
                => (count = Iterations /\ cerr = "none" /\ Opened = 1..Iterations)
          /\ cpc \notin {"delete_instance", "done"}
                => (count < Iterations
                    /\ Opened = 1..(IF cpc = "connect" THEN count ELSE count + 1)))
    /\ [][/\ count' # count
             => (count' = count + 1 /\ At(clog', "recv", "result") # {})
          /\ cpc \in {"delete_instance", "done"} => Opened' = Opened]_vars
    /\ (cpc = "delete_instance") ~> (cpc = "done")

C22_Witness ==
    /\ cpc = "done" /\ count = Iterations /\ cerr = "none"
    /\ sconn = Iterations /\ At(clog, "recv", "result") # {}

\* C23: what a completed exchange delivers to the client is determined by
\* the detector's answer in that exchange: every result message the client
\* reads whole, in whichever exchange and however the frame was cut into
\* reads, is the text of "no detection" for an empty answer of the detector
\* called in this exchange; and an exchange is completed (the iteration
\* ends) only so, with no actuator command.
C23_OutcomeFunction ==
    /\ [](\A i \in At(clog, "recv", "result") :
             ~split => /\ clog[i].data = <<"[", "]">> /\ recv_string = <<"[", "]">>
                       /\ At(slog, "call", "detect") # {} /\ results = <<>>
                       /\ overrides = <<>>)
    /\ [][count' # count
            => /\ recv_string' = <<"[", "]">> /\ overrides' = overrides
               /\ At(slog, "call", "detect") # {} /\ results = <<>>
               /\ Pick(slog, "send", "result") = <<Ev("send", "result", <<"[", "]">>)>>]_vars

\* the last exchange is completed, after another, of the longest frame,
\* which no single read of the server holds
C23_Witness ==
    /\ count = Iterations /\ Iterations > 1
    /\ Len(frame) = MaxFrameLen /\ MaxFrameLen > BufSize
    /\ Pick(slog, "call", "detect") = <<Ev("call", "detect", frame)>>
    /\ recv_string = <<"[", "]">> /\ results = <<>>

\* C24: what the client evaluates from the text send_msg writes for a pair
\* of ints is that pair; the empty list is written as "[]", which the client
\* takes as no vector; and no pair is written as "[]".
C24_RoundTrip ==
    (call.fn = "send_msg" /\ ret # <<>>)
       => LET msg == call.args[1]
          IN  /\ msg = <<>> => (ret[1] = <<"[", "]">> /\ ret[2] = "none")
              /\ msg # <<>> => /\ ret[1] # <<"[", "]">>
                               /\ ret[2] = "vector"
                               /\ ret[3] = msg

C24_Witness ==
    /\ call.fn = "send_msg" /\ ret # <<>>
    /\ call.args[1] = <<0 - MaxVect, MaxVect>>
    /\ ret[2] = "vector" /\ ret[3] = <<0 - MaxVect, MaxVect>>

\* C25: in an exchange the server calls compute_translation_vector at most
\* once (once for a detection, never for an empty answer of the detector)
\* and sends at most one result message, and the client reads at most
\* one; an iteration ends only after exactly one result message was read
\* (and, with no fault, exactly one was sent); a pulse starts only on the
\* read of that message, with the vector evaluated from it, and the
\* actuators change only at the start and at the end of that one pulse.
C25_OncePerExchange ==
    /\ [](/\ Cardinality(At(slog, "call", "vector")) <= 1
          /\ At(slog, "call", "detect") # {}
                => Cardinality(At(slog, "call", "vector")) = (IF results = <<>> THEN 0 ELSE 1)
          /\ Cardinality(At(slog, "send", "result")) <= 1
          /\ Cardinality(At(clog, "recv", "result")) <= 1)
    /\ [][count' # count
            => /\ Cardinality(At(clog', "recv", "result")) = 1
               /\ faults = 0 => Cardinality(At(slog, "send", "result")) = 1]_vars
    /\ [][(cpc' = "rest" /\ cpc # "rest")
            => /\ cpc = "recv_result"
               /\ At(clog, "recv", "result") = {}
               /\ Cardinality(At(clog', "recv", "result")) = 1
               /\ recv_vect' = literal_eval(recv_string')
               /\ overrides' = channel_override(recv_vect'[1], 0)]_vars
    /\ [][overrides' # overrides
            => \/ cpc = "recv_result" /\ cpc' = "rest"
               \/ cpc = "rest" /\ count' = count + 1]_vars

\* an exchange that ended after one pulse
C25_Witness ==
    /\ count > 0 /\ recv_vect = <<0, -10>> /\ overrides = <<1500, 1500>>
    /\ Cardinality(At(clog, "recv", "result")) = 1
    /\ cpc \in {"connect", "delete_instance"}

\* C26: an exchange in which the detector has raised goes on as one with
\* no detection: the server is running, has sent the second 'OK FRAME', and
\* the result it sends is the empty one.
C26_DetectorFailure ==
    At(slog, "raise", "detect") # {}
       => /\ spc # "crashed" /\ serr = "none"
          /\ Cardinality(At(slog, "send", "ack")) = 2
          /\ \A i \in At(slog, "send", "result") : slog[i].data = <<"[", "]">>

\* a party is through with connection c: it went on to a later one, ended
\* its exchange on it, or its process ended
ClientLeft(c) == c < conn \/ cpc \in {"done", "crashed", "killed"}
ServerLeft(c) == \/ c < sconn
                 \/ c = sconn /\ spc \in {"listen", "accept"}
                 \/ spc = "crashed"

Pending(segs) == Len(Bytes(segs))

\* C27: a party that is through with a connection has closed its end (the
\* server at once; the client when it opens the next connection or ends)
\* and takes no byte from it and puts none on it afterwards; and the
\* connection an exchange starts on is one that was never used: the client
\* connects a new one, on which nothing was sent, and the server accepts
\* one later than every one it had, open, on which it has sent nothing and
\* from which nothing was read.
C27_ClosedAndNeverReused ==
    /\ [](\A c \in Conns :
            /\ (ServerLeft(c) /\ c <= sconn) => sclosed[c]
            /\ (c < conn /\ cpc \notin {"connect", "delete_instance"}) => cclosed[c]
            /\ (c <= conn /\ cpc \in {"done", "crashed", "killed"}) => cclosed[c])
    /\ [][faults' = faults
            => \A c \in Conns :
                 /\ ClientLeft(c) => /\ Pending(s2c'[c]) >= Pending(s2c[c])
                                     /\ Pending(c2s'[c]) <= Pending(c2s[c])
                 /\ ServerLeft(c) => /\ Pending(c2s'[c]) >= Pending(c2s[c])
                                     /\ Pending(s2c'[c]) <= Pending(s2c[c])]_vars
    /\ [][sconn' # sconn
            => /\ sconn' > sconn /\ ~sclosed[sconn']
               /\ \A i \in 1..Len(s2c[sconn']) : s2c[sconn'][i].kind = "inject"
               /\ \A i \in 1..Len(c2s[sconn']) : c2s[sconn'][i].whole]_vars
    /\ [][(cpc = "connect" /\ cpc' = "capture")
            => /\ conn \notin Opened /\ ~cclosed[conn] /\ ~sclosed[conn]
               /\ c2s[conn] = <<>> /\ s2c[conn] = <<>>]_vars

\* the second exchange is under way on its own connection, the first
\* connection closed on both sides
C27_Witness ==
    /\ count = 1 /\ cpc = "wait_ack2" /\ sconn = 2 /\ spc = "detect"
    /\ cclosed[1] /\ sclosed[1] /\ ~cclosed[2] /\ ~sclosed[2]

\* C28: every chunk send_frame sends is non-empty and of at most BufSize
\* bytes; the chunks sent so far, in order, are the file up to the read
\* position; and once send_frame has returned they are the whole file, as
\* many bytes as the size header of the exchange announced.
C28_FrameChunks ==
    LET chunks == Pick(clog, "send", "frame")
    IN  /\ \A i \in 1..Len(chunks) :
              chunks[i].data # <<>> /\ Len(chunks[i].data) <= BufSize
        /\ cpc = "send_frame" => Cat(chunks) = SubSeq(frame, 1, fpos)
        /\ cpc \in {"wait_ack2", "send_vect", "recv_result", "rest"}
              => /\ Cat(chunks) = frame
                 /\ clog[1] = Ev("send", "size", IntStr(Len(Cat(chunks))))
                 /\ IntVal(clog[1].data) = Len(Cat(chunks))

\* a frame with no line end, longer than one chunk, was sent: in two chunks,
\* the first of BufSize bytes
C28_Witness ==
    /\ cpc = "wait_ack2" /\ frame = MkFlat(MaxFrameLen)
    /\ Len(Pick(clog, "send", "frame")) = 2
    /\ Len(Pick(clog, "send", "frame")[1].data) = BufSize

\* the kinds of the messages that the first n bytes of a stream belong to
KindsOf(segs, n) ==
    {segs[i].kind : i \in {j \in 1..Len(segs) : Pending(SubSeq(segs, 1, j - 1)) < n}}

\* C29: the frame file never holds more than frame_size bytes; a read of
\* receive_frame takes at most min(BufSize, frame_size - img_size) bytes
\* off the connection, all of which go to the file, and leaves the rest
\* pending; no byte of an 'OK VECT' of the client is among those it takes.
C29_NoOverRead ==
    /\ [](/\ img_size <= Max(frame_size, 0)
          /\ spc \in {"recv_frame", "detect", "wait_vect"} => Len(framebuf) = img_size)
    /\ [][img_size' > img_size
            => LET n == Pending(c2s[sconn]) - Pending(c2s'[sconn])
               IN  /\ spc = "recv_frame"
                   /\ n = img_size' - img_size
                   /\ n <= Min(BufSize, frame_size - img_size)
                   /\ framebuf' = framebuf \o SubSeq(Bytes(c2s[sconn]), 1, n)
                   /\ Bytes(c2s'[sconn])
                        = SubSeq(Bytes(c2s[sconn]), n + 1, Pending(c2s[sconn]))
                   /\ "vect" \notin KindsOf(c2s[sconn], n)]_vars

\* the whole frame is in the file, and the 'OK VECT' the client sent while
\* the server was still reading the frame is pending, whole
C29_Witness ==
    /\ spc = "detect" /\ frame_size = MaxFrameLen /\ framebuf = frame
    /\ c2s[sconn] = <<Seg("vect", Ack(VECT))>>

\* C30: receive_frame starts every exchange on an empty frame file with
\* its count at 0; from then on the file changes only by the bytes a read
\* of receive_frame takes off the connection of this exchange, at its end;
\* so the file the detector is given holds img_size bytes, all received in
\* this exchange, and in a run without faults and without a cut message it
\* is the frame the client captured for this exchange.
C30_FreshFrameBuffer ==
    /\ [][(spc = "recv_size" /\ spc' \in {"recv_frame", "detect"})
            => (framebuf' = <<>> /\ img_size' = 0)]_vars
    /\ [][framebuf' # framebuf
            => \/ spc = "recv_size" /\ framebuf' = <<>>
               \/ /\ spc = "recv_frame"
                  /\ \E n \in 1..Pending(c2s[sconn]) :
                        /\ framebuf' = framebuf \o SubSeq(Bytes(c2s[sconn]), 1, n)
                        /\ c2s'[sconn] = Drop(c2s[sconn], n)]_vars
    /\ [](spc = "detect"
            => /\ Len(framebuf) = img_size
               /\ Discrete => (sconn = conn /\ framebuf = frame))

\* the second exchange, of a one-byte frame, at the detector call; the first
\* exchange was completed, so its frame had a byte or more
C30_Witness ==
    /\ sconn = 2 /\ count = 1 /\ spc = "detect"
    /\ frame = MkFrame(1) /\ framebuf = MkFrame(1) /\ img_size = 1

\* the entries of one level in the log of remote_connect
Logged(level) == Len(SelectSeq(ssh_log, LAMBDA e : e = level))

\* C31: remote_connect calls connect() at most retry_count times and never
\* after a call that succeeded; it ends (it returns, or an exception other
\* than NoValidConnectionsError leaves it); when it has returned, the
\* timeout error is logged exactly when every one of the retry_count
\* attempts was made and failed with NoValidConnectionsError, and otherwise
\* the client is connected.
C31_RemoteConnect ==
    /\ [](/\ attempts <= Max(retry_count, 0)
          /\ Logged("warning") = ssh_count /\ ssh_count <= attempts
          /\ Logged("timeout") <= 1
          /\ ssh_pc = "returned"
                => /\ Logged("timeout") = 1
                        <=> (~connected /\ attempts = Max(retry_count, 0)
                             /\ Logged("warning") = attempts)
                   /\ Logged("timeout") = 0 => connected)
    /\ [][attempts' # attempts
            => (~connected /\ attempts' = attempts + 1 /\ ssh_pc = "loop")]_vars
    /\ <>(ssh_pc \in {"returned", "raised"})

\* the last of MaxRetry attempts succeeded
C31_Witness ==
    /\ ssh_pc = "returned" /\ retry_count = MaxRetry /\ attempts = MaxRetry
    /\ connected /\ ssh_count = MaxRetry - 1 /\ Logged("timeout") = 0

C33_InstanceDeletedOnce ==
    /\ [](instance = "deleted" => (count = Iterations /\ cpc = "done"))
    /\ [][instance' # instance
            => /\ instance = "created" /\ instance' = "deleted"
               /\ cpc = "delete_instance" /\ count = Iterations]_vars
    /\ <>(instance = "deleted" \/ split)

====
